---- MODULE Spec2Model ----
(***************************************************************************)
(* Session lifecycle of src/fun.py: the verification dispatcher            *)
(* (RequestHandler.do_GET), the device-code poller (monitor_epic_auth),    *)
(* the session registry (active_sessions under session_lock) and the       *)
(* per-session refresh task (auto_refresh_session).                        *)
(*                                                                         *)
(* Units of work are indexed by the request that started them: request a   *)
(* is served by worker thread a, which may start Poller a, which may       *)
(* submit login notification a and refresh task a to the main event loop.  *)
(*                                                                         *)
(* Time.  Each Poller reads a clock that starts at 0 when the Poller       *)
(* starts; the refresh task it spawns continues that clock.  The clock     *)
(* advances in asyncio.sleep only, by exactly the slept duration: provider *)
(* calls and registry operations take no time.                             *)
(*                                                                         *)
(* Provider and sink responses are inputs: every call draws its outcome    *)
(* from the outcomes the code distinguishes.  A JSON body is an object.    *)
(*                                                                         *)
(* The environment of a run (which requests arrive, which users activate,  *)
(* which timings the provider hands out, how the sink answers) is fixed in *)
(* the initial state; the specifications differ in it only.                *)
(***************************************************************************)
EXTENDS Integers, Sequences, FiniteSets, TLC

(* ------------------------------ bounds -------------------------------- *)

\* Number of inbound requests (each served by its own worker thread).
NumRequests == 3

\* Number of distinct values str(uuid.uuid4())[:8] can take in the model.
NumSessionIds == 2

\* Number of loop iterations a refresh task may begin.
MaxRefresh == 2

(* ----------------------------- constants ------------------------------ *)

REFRESH_INTERVAL == 120

Attempts == 1..NumRequests

\* Every request but the last one.
Early == Attempts \ { NumRequests }

SessionIds == 1..NumSessionIds

\* permanent_link_id before setup_ngrok_tunnel has set it (Python None).
None == "<None>"

\* The identifier setup_ngrok_tunnel generates.
LinkId == "link"

\* Request paths, as the segments between the slashes: "/verify/link",
\* "/verify/other", "/verify/" (empty last segment) and "/status".
Paths == { <<"verify", LinkId>>, <<"verify", "other">>, <<"verify", "">>, <<"status">> }

\* (interval, expires_in) pairs the device-authorization response may carry.
Timings == { [interval |-> 5, expires_in |-> 20],
             [interval |-> 5, expires_in |-> 12],
             [interval |-> 5, expires_in |-> 5],
             [interval |-> 7, expires_in |-> 5] }

\* The one pair offered where the Pollers' timing is not the subject.
ShortTimings == { [interval |-> 5, expires_in |-> 5] }

\* Outcomes of the POST of line 187: a 2xx status, another status, or a
\* transport failure.
WebhookResponses == { "2xx", "not2xx", "error" }

VARIABLES
    permanent_link_id,   \* global permanent_link_id
    verification_uses,   \* global verification_uses
    active_sessions,     \* global active_sessions: session_id -> record
    session_lock,        \* holder of session_lock
    request,             \* request[a]: worker thread a in do_GET
    poller,              \* poller[a]: monitor_epic_auth started by request a
    login,               \* login[a]: send_login_success submitted by poller a
    task,                \* task[a]: auto_refresh_session submitted by poller a
    refresh_sent,        \* refresh_sent[s]: refresh notifications sent for session_id s
    provider_timings,    \* the (interval, expires_in) pairs the provider may answer with
    workers,             \* the request worker threads the server may start
    activating,          \* the attempts whose user completes the activation
    sink_responses       \* the outcomes a POST to the notification sink may have

vars == << permanent_link_id, verification_uses, active_sessions, session_lock,
           request, poller, login, task, refresh_sent, provider_timings, workers,
           activating, sink_responses >>

\* The environment does not change during a run.
env == << provider_timings, workers, activating, sink_responses >>

Free == << "free", 0 >>

(* ------------------------------ registry ------------------------------ *)

\* active_sessions[session_id] = {...}
Insert(reg, sid, rec) ==
    [ s \in (DOMAIN reg) \cup {sid} |-> IF s = sid THEN rec ELSE reg[s] ]

\* active_sessions.pop(session_id, None)
Pop(reg, sid) ==
    [ s \in (DOMAIN reg) \ {sid} |-> reg[s] ]

\* active_sessions[session_id].update({...})
Update(reg, sid, code, count) ==
    [ reg EXCEPT ![sid] = [ @ EXCEPT !.exchange_code = code, !.refresh_count = count ] ]

(* ------------------------------- Init --------------------------------- *)

Machine ==
    /\ permanent_link_id = None
    /\ verification_uses = 0
    /\ active_sessions = [ s \in {} |-> 0 ]
    /\ session_lock = Free
    /\ request = [ a \in Attempts |->
                     [ pc |-> "idle", path |-> << >>, loaded |-> 0, response |-> 0 ] ]
    /\ poller = [ a \in Attempts |->
                     [ pc |-> "none", interval |-> 0, deadline |-> 0, now |-> 0,
                       polls |-> 0, quiet |-> TRUE,
                       exchange_data |-> "unset", account_info |-> "unset",
                       session_id |-> 0,
                       inserts |-> 0, logins |-> 0, spawns |-> 0 ] ]
    /\ login = [ a \in Attempts |-> [ pc |-> "none", sent |-> 0 ] ]
    /\ task = [ a \in Attempts |->
                     [ pc |-> "none", session_id |-> 0, refresh_count |-> 0,
                       now |-> 0, ticks |-> 0, sent |-> 0, undelivered |-> FALSE,
                       why |-> "none" ] ]
    /\ refresh_sent = [ s \in SessionIds |-> 0 ]

\* The early requests in flight together, Pollers with the short timing.
Init ==
    /\ Machine
    /\ provider_timings = ShortTimings
    /\ workers = Early
    /\ activating = Early
    /\ sink_responses = { "2xx" }

\* The early requests, with one user who completes the activation.
InitDispatch ==
    /\ Machine
    /\ provider_timings = ShortTimings
    /\ workers = Early
    /\ activating = { 1 }
    /\ sink_responses = { "2xx" }

\* One verification attempt on its own, with every timing.
InitAttempt ==
    /\ Machine
    /\ provider_timings = Timings
    /\ workers = { 1 }
    /\ activating = { 1 }
    /\ sink_responses = WebhookResponses

\* A state the early requests reach together (lines 175-180 run by each of
\* their Pollers with the same uuid prefix): every one of them was granted a
\* token, stored its Session under session_id 1 and submitted its login
\* notification, which was sent, and its refresh task, which is in its first
\* sleep.  The entry is the one stored last.
Shared ==
    /\ permanent_link_id = LinkId
    /\ verification_uses = NumRequests - 1
    /\ active_sessions = Insert([ s \in {} |-> 0 ], 1,
            [ access_token |-> NumRequests - 1, exchange_code |-> 0,
              account_info |-> "account", refresh_count |-> 0 ])
    /\ session_lock = Free
    /\ request = [ a \in Attempts |->
          IF a \in Early
          THEN [ pc |-> "done", path |-> << "verify", LinkId >>,
                 loaded |-> a - 1, response |-> 302 ]
          ELSE [ pc |-> "idle", path |-> << >>, loaded |-> 0, response |-> 0 ] ]
    /\ poller = [ a \in Attempts |->
          IF a \in Early
          THEN [ pc |-> "Succeeded", interval |-> 5, deadline |-> 5, now |-> 5,
                 polls |-> 1, quiet |-> FALSE,
                 exchange_data |-> "code", account_info |-> "account",
                 session_id |-> 1,
                 inserts |-> 1, logins |-> 1, spawns |-> 1 ]
          ELSE [ pc |-> "none", interval |-> 0, deadline |-> 0, now |-> 0,
                 polls |-> 0, quiet |-> TRUE,
                 exchange_data |-> "unset", account_info |-> "unset",
                 session_id |-> 0,
                 inserts |-> 0, logins |-> 0, spawns |-> 0 ] ]
    /\ login = [ a \in Attempts |->
          IF a \in Early THEN [ pc |-> "done", sent |-> 1 ]
                         ELSE [ pc |-> "none", sent |-> 0 ] ]
    /\ task = [ a \in Attempts |->
          IF a \in Early
          THEN [ pc |-> "sleep", session_id |-> 1, refresh_count |-> 0,
                 now |-> 5, ticks |-> 0, sent |-> 0, undelivered |-> FALSE,
                       why |-> "none" ]
          ELSE [ pc |-> "none", session_id |-> 0, refresh_count |-> 0,
                 now |-> 0, ticks |-> 0, sent |-> 0, undelivered |-> FALSE,
                       why |-> "none" ] ]
    /\ refresh_sent = [ s \in SessionIds |-> 0 ]

\* Spec reaches Shared: TLC refutes this as an invariant of Spec.
SharedUnreached == ~Shared

\* The last request arrives when the early ones have come that far.
InitLate ==
    /\ Shared
    /\ provider_timings = ShortTimings
    /\ workers = Attempts
    /\ activating = Attempts
    /\ sink_responses = { "2xx" }

(* ------------------- Verification Dispatcher: do_GET ------------------- *)

\* self.path.startswith('/verify/')
StartsWithVerify(path) == Len(path) >= 2 /\ path[1] = "verify"

\* self.path.split('/')[-1]
LastSegment(path) == path[Len(path)]

LinkRejected_NoCheck(link, path) == FALSE

\* not permanent_link_id or self.path.split('/')[-1] != permanent_link_id
LinkRejected(link, path) == link = None \/ LastSegment(path) # link

\* Lines 212-215 and 227: route the request; a path outside /verify/, a
\* mismatched identifier or an unset identifier is answered 404.
do_GET_route(a) ==
    /\ request[a].pc = "idle"
    /\ \E path \in Paths :
         request' = [ request EXCEPT ![a] =
              IF StartsWithVerify(path) /\ ~LinkRejected(permanent_link_id, path)
              THEN [ @ EXCEPT !.pc = "load", !.path = path ]
              ELSE [ @ EXCEPT !.pc = "done", !.path = path, !.response = 404 ] ]
    /\ UNCHANGED << permanent_link_id, verification_uses, active_sessions,
                    session_lock, poller, login, task, refresh_sent, env >>

\* Line 216, verification_uses += 1, first half: the worker thread reads
\* the global.  No lock guards the statement.
do_GET_load(a) ==
    /\ request[a].pc = "load"
    /\ request' = [ request EXCEPT ![a].pc = "store",
                                   ![a].loaded = verification_uses ]
    /\ UNCHANGED << permanent_link_id, verification_uses, active_sessions,
                    session_lock, poller, login, task, refresh_sent, env >>

\* Line 216, second half: the worker thread writes the sum back.
do_GET_store(a) ==
    /\ request[a].pc = "store"
    /\ verification_uses' = request[a].loaded + 1
    /\ request' = [ request EXCEPT ![a].pc = "initiate" ]
    /\ UNCHANGED << permanent_link_id, active_sessions, session_lock,
                    poller, login, task, refresh_sent, env >>

\* What create_epic_auth_session gives do_GET: an exception (a provider call
\* with a non-success status, a transport failure, a missing field) or the
\* device authorization with its interval and expires_in.
create_epic_auth_session ==
    { [ ok |-> FALSE, interval |-> 0, expires_in |-> 0 ] }
    \cup { [ ok |-> TRUE, interval |-> t.interval, expires_in |-> t.expires_in ] :
           t \in provider_timings }

\* The state of a Poller thread as monitor_epic_auth begins (lines 160-165):
\* deadline = time.time() + expires_in, on a clock that reads 0 at the start.
StartPoller(p, epic_session) ==
    [ p EXCEPT !.pc = "loop", !.interval = epic_session.interval,
               !.now = 0, !.deadline = 0 + epic_session.expires_in ]

do_GET_failed_Spawns(a) ==
    /\ request[a].pc = "initiate"
    /\ \E epic_session \in create_epic_auth_session :
         /\ ~epic_session.ok
         /\ request' = [ request EXCEPT ![a].pc = "done", ![a].response = 500 ]
         /\ poller' = [ poller EXCEPT ![a] =
                StartPoller(@, [ interval |-> 5, expires_in |-> 20 ]) ]
    /\ UNCHANGED << permanent_link_id, verification_uses, active_sessions,
                    session_lock, login, task, refresh_sent, env >>

\* Lines 219-222 raising, then 225-226: the Initiator failed; send_error(500).
do_GET_failed(a) ==
    /\ request[a].pc = "initiate"
    /\ \E epic_session \in create_epic_auth_session :
         /\ ~epic_session.ok
         /\ request' = [ request EXCEPT ![a].pc = "done", ![a].response = 500 ]
    /\ UNCHANGED << permanent_link_id, verification_uses, active_sessions,
                    session_lock, poller, login, task, refresh_sent, env >>

\* Lines 219-224: the Initiator succeeded; start the Poller thread and
\* redirect to the activation URL.
do_GET_redirect(a) ==
    /\ request[a].pc = "initiate"
    /\ \E epic_session \in create_epic_auth_session :
         /\ epic_session.ok
         /\ poller' = [ poller EXCEPT ![a] = StartPoller(@, epic_session) ]
         /\ request' = [ request EXCEPT ![a].pc = "done", ![a].response = 302 ]
    /\ UNCHANGED << permanent_link_id, verification_uses, active_sessions,
                    session_lock, login, task, refresh_sent, env >>

\* Lines 248-251: the tunnel is up; the identifier is generated once.
setup_ngrok_tunnel ==
    /\ permanent_link_id = None
    /\ permanent_link_id' = LinkId
    /\ UNCHANGED << verification_uses, active_sessions, session_lock,
                    request, poller, login, task, refresh_sent, env >>

(* -------------------- Device Code Poller: monitor_epic_auth ------------ *)

\* Outcomes of the device-token poll (lines 168-171): "error" is a transport
\* failure or a 200 body that is not JSON (the call raises); "not200" a
\* non-success status; "pending" a 200 body without access_token; "granted"
\* a 200 body with access_token and account_id.
PollResponses == { "error", "not200", "pending", "granted" }

\* Outcomes of the exchange call of line 173, whose status is not looked at:
\* "error" raises (transport failure, body not JSON); "code" is a body with
\* 'code'; "nocode" is the JSON error body of a non-success status.
ExchangeResponses == { "error", "code", "nocode" }

\* Outcomes of the account call of line 174, whose status is not looked at:
\* "error" raises; "account" is the account object; "errorbody" is the JSON
\* error body of a non-success status.
AccountResponses == { "error", "account", "errorbody" }

\* str(uuid.uuid4())[:8]: any of the values the prefix can take.
uuid4_prefix == SessionIds

LoopCondition_Late(now, deadline) == now <= deadline + 1

\* Line 166: time.time() < deadline
LoopCondition(now, deadline) == now < deadline

\* Line 166: go round the loop again, or fall out of it (the attempt expired).
monitor_epic_auth_loop(a) ==
    /\ poller[a].pc = "loop"
    /\ poller' = [ poller EXCEPT ![a].pc =
                     IF LoopCondition(poller[a].now, poller[a].deadline)
                     THEN "sleep" ELSE "Expired" ]
    /\ UNCHANGED << permanent_link_id, verification_uses, active_sessions,
                    session_lock, request, login, task, refresh_sent, env >>

\* Line 167: await asyncio.sleep(interval)
monitor_epic_auth_sleep(a) ==
    /\ poller[a].pc = "sleep"
    /\ poller' = [ poller EXCEPT ![a].pc = "poll",
                                 ![a].now = @ + poller[a].interval ]
    /\ UNCHANGED << permanent_link_id, verification_uses, active_sessions,
                    session_lock, request, login, task, refresh_sent, env >>

PollNext_Abort(resp) ==
    CASE resp = "granted" -> "exchange"
      [] resp = "pending" -> "loop"
      [] OTHER            -> "Failed"

\* Lines 168-171 and 181: where the Poller goes after a poll response.
PollNext(resp) ==
    CASE resp = "error"   -> "Failed"
      [] resp = "not200"  -> "loop"
      [] resp = "pending" -> "loop"
      [] resp = "granted" -> "exchange"

\* Lines 168-172: one device-token poll.  The provider grants a token only
\* once the user has activated the device code.
monitor_epic_auth_poll(a) ==
    /\ poller[a].pc = "poll"
    /\ \E resp \in PollResponses :
         /\ resp = "granted" => a \in activating
         /\ poller' = [ poller EXCEPT ![a].pc = PollNext(resp),
                                      ![a].polls = @ + 1,
                                      ![a].quiet = @ /\ resp \in { "not200", "pending" } ]
    /\ UNCHANGED << permanent_link_id, verification_uses, active_sessions,
                    session_lock, request, login, task, refresh_sent, env >>

\* Line 173: exchange_data = await r2.json()
monitor_epic_auth_exchange(a) ==
    /\ poller[a].pc = "exchange"
    /\ \E resp \in ExchangeResponses :
         poller' = [ poller EXCEPT ![a] =
              IF resp = "error"
              THEN [ @ EXCEPT !.pc = "Failed", !.exchange_data = "raised" ]
              ELSE [ @ EXCEPT !.pc = "account", !.exchange_data = resp ] ]
    /\ UNCHANGED << permanent_link_id, verification_uses, active_sessions,
                    session_lock, request, login, task, refresh_sent, env >>

\* Lines 174-175: account_info = await r3.json(); session_id = str(uuid.uuid4())[:8]
monitor_epic_auth_account(a) ==
    /\ poller[a].pc = "account"
    /\ \E resp \in AccountResponses, sid \in uuid4_prefix :
         poller' = [ poller EXCEPT ![a] =
              IF resp = "error"
              THEN [ @ EXCEPT !.pc = "Failed", !.account_info = "raised" ]
              ELSE [ @ EXCEPT !.pc = "acquire", !.account_info = resp,
                              !.session_id = sid ] ]
    /\ UNCHANGED << permanent_link_id, verification_uses, active_sessions,
                    session_lock, request, login, task, refresh_sent, env >>

\* Line 176: with session_lock (enter)
monitor_epic_auth_acquire(a) ==
    /\ poller[a].pc = "acquire"
    /\ session_lock = Free
    /\ session_lock' = << "poller", a >>
    /\ poller' = [ poller EXCEPT ![a].pc = "insert" ]
    /\ UNCHANGED << permanent_link_id, verification_uses, active_sessions,
                    request, login, task, refresh_sent, env >>

\* The record of line 177.
NewSession(a, p) ==
    [ access_token |-> a, exchange_code |-> 0, account_info |-> p.account_info,
      refresh_count |-> 0 ]

\* Line 177 and the end of the with block: exchange_data['code'] raises
\* KeyError when the body has no 'code'; otherwise the entry is stored,
\* whether or not the session_id is already a key.
monitor_epic_auth_insert(a) ==
    /\ poller[a].pc = "insert"
    /\ session_lock = << "poller", a >>
    /\ session_lock' = Free
    /\ IF poller[a].exchange_data = "code"
       THEN /\ active_sessions' =
                  Insert(active_sessions, poller[a].session_id, NewSession(a, poller[a]))
            /\ poller' = [ poller EXCEPT ![a].pc = "submit", ![a].inserts = @ + 1 ]
       ELSE /\ poller' = [ poller EXCEPT ![a].pc = "Failed" ]
            /\ UNCHANGED active_sessions
    /\ UNCHANGED << permanent_link_id, verification_uses, request, login, task,
                    refresh_sent, env >>

monitor_epic_auth_submit_NoReturn(a) ==
    /\ poller[a].pc = "submit"
    /\ poller' = [ poller EXCEPT ![a].pc = "loop",
                                 ![a].logins = @ + 1, ![a].spawns = @ + 1 ]
    /\ login' = [ login EXCEPT ![a].pc = "pending" ]
    /\ task' = [ task EXCEPT ![a].pc = "spawned",
                             ![a].session_id = poller[a].session_id,
                             ![a].now = poller[a].now ]
    /\ UNCHANGED << permanent_link_id, verification_uses, active_sessions,
                    session_lock, request, refresh_sent, env >>

\* Lines 178-180: submit send_login_success and auto_refresh_session to the
\* main event loop, then return.
monitor_epic_auth_submit(a) ==
    /\ poller[a].pc = "submit"
    /\ poller' = [ poller EXCEPT ![a].pc = "Succeeded",
                                 ![a].logins = @ + 1, ![a].spawns = @ + 1 ]
    /\ login' = [ login EXCEPT ![a].pc = "pending" ]
    /\ task' = [ task EXCEPT ![a].pc = "spawned",
                             ![a].session_id = poller[a].session_id,
                             ![a].now = poller[a].now ]
    /\ UNCHANGED << permanent_link_id, verification_uses, active_sessions,
                    session_lock, request, refresh_sent, env >>

(* --------------------------- notifications ----------------------------- *)

send_webhook_message_Raises(resp) == IF resp = "2xx" THEN "returned" ELSE "raised"

\* Lines 184-191: every outcome is logged at most; the call returns.
send_webhook_message(resp) == "returned"

\* Lines 193-197, run by the main event loop.
send_login_success(a) ==
    /\ login[a].pc = "pending"
    /\ \E resp \in sink_responses : send_webhook_message(resp) = "returned"
    /\ login' = [ login EXCEPT ![a].pc = "done", ![a].sent = @ + 1 ]
    /\ UNCHANGED << permanent_link_id, verification_uses, active_sessions,
                    session_lock, request, poller, task, refresh_sent, env >>

(* ----------------- Refresh Scheduler: auto_refresh_session ------------- *)

\* Outcomes of the GET of line 119: "code" is a 200 body with a non-empty
\* 'code'; "not200" another status; "error" a transport failure or a body
\* without 'code' (the exception is caught at line 121).
RefreshResponses == { "code", "not200", "error" }

\* Lines 116-122: TRUE when a code is returned, FALSE for None.
refresh_exchange_code(resp) == resp = "code"

auto_refresh_session_start_ActsFirst(a) ==
    /\ task[a].pc = "spawned"
    /\ login[a].pc = "done"
    /\ task' = [ task EXCEPT ![a].pc = "exchange", ![a].refresh_count = 0 ]
    /\ UNCHANGED << permanent_link_id, verification_uses, active_sessions,
                    session_lock, request, poller, login, refresh_sent, env >>

\* Lines 125-129: the main event loop starts the task; refresh_count = 0.
\* The loop runs what was submitted to it in the order of submission (lines
\* 178-179): send_login_success has made its POST when the task starts.
auto_refresh_session_start(a) ==
    /\ task[a].pc = "spawned"
    /\ login[a].pc = "done"
    /\ task' = [ task EXCEPT ![a].pc = "sleep", ![a].refresh_count = 0 ]
    /\ UNCHANGED << permanent_link_id, verification_uses, active_sessions,
                    session_lock, request, poller, login, refresh_sent, env >>

\* Line 130: await asyncio.sleep(REFRESH_INTERVAL)
auto_refresh_session_sleep(a) ==
    /\ task[a].pc = "sleep"
    /\ task[a].ticks < MaxRefresh
    /\ task' = [ task EXCEPT ![a].pc = "exchange",
                             ![a].now = @ + REFRESH_INTERVAL,
                             ![a].ticks = @ + 1 ]
    /\ UNCHANGED << permanent_link_id, verification_uses, active_sessions,
                    session_lock, request, poller, login, refresh_sent, env >>

\* Lines 131-133 and 141-143: the refresh call; a code counts the refresh,
\* None leaves the loop.
auto_refresh_session_exchange(a) ==
    /\ task[a].pc = "exchange"
    /\ \E resp \in RefreshResponses :
         task' = [ task EXCEPT ![a] =
              IF refresh_exchange_code(resp)
              THEN [ @ EXCEPT !.pc = "acquire", !.refresh_count = @ + 1 ]
              ELSE [ @ EXCEPT !.pc = "finally", !.why = "failure" ] ]
    /\ UNCHANGED << permanent_link_id, verification_uses, active_sessions,
                    session_lock, request, poller, login, refresh_sent, env >>

\* Line 134: with session_lock (enter)
auto_refresh_session_acquire(a) ==
    /\ task[a].pc = "acquire"
    /\ session_lock = Free
    /\ session_lock' = << "task", a >>
    /\ task' = [ task EXCEPT ![a].pc = "update" ]
    /\ UNCHANGED << permanent_link_id, verification_uses, active_sessions,
                    request, poller, login, refresh_sent, env >>

auto_refresh_session_update_KeepsLock(a) ==
    /\ task[a].pc = "update"
    /\ session_lock = << "task", a >>
    /\ IF task[a].session_id \in DOMAIN active_sessions
       THEN /\ active_sessions' = Update(active_sessions, task[a].session_id,
                                         task[a].refresh_count, task[a].refresh_count)
            /\ task' = [ task EXCEPT ![a].pc = "notify" ]
            /\ UNCHANGED session_lock
       ELSE /\ task' = [ task EXCEPT ![a].pc = "finally", ![a].why = "absent" ]
            /\ session_lock' = Free
            /\ UNCHANGED active_sessions
    /\ UNCHANGED << permanent_link_id, verification_uses, request, poller, login,
                    refresh_sent, env >>

\* Lines 135-138 and the end of the with block: update the entry if the
\* session_id is still a key, otherwise leave the loop.
auto_refresh_session_update(a) ==
    /\ task[a].pc = "update"
    /\ session_lock = << "task", a >>
    /\ session_lock' = Free
    /\ IF task[a].session_id \in DOMAIN active_sessions
       THEN /\ active_sessions' = Update(active_sessions, task[a].session_id,
                                         task[a].refresh_count, task[a].refresh_count)
            /\ task' = [ task EXCEPT ![a].pc = "notify" ]
       ELSE /\ task' = [ task EXCEPT ![a].pc = "finally", ![a].why = "absent" ]
            /\ UNCHANGED active_sessions
    /\ UNCHANGED << permanent_link_id, verification_uses, request, poller, login,
                    refresh_sent, env >>

\* Lines 139-140 and 199-203: await send_refresh_update(...), one POST to the
\* sink; were the call to raise, lines 146-149 would end the task.
auto_refresh_session_notify(a) ==
    /\ task[a].pc = "notify"
    /\ \E resp \in sink_responses :
         task' = [ task EXCEPT ![a] =
              IF send_webhook_message(resp) = "returned"
              THEN [ @ EXCEPT !.pc = "sleep", !.sent = @ + 1,
                              !.undelivered = (resp # "2xx") ]
              ELSE [ @ EXCEPT !.pc = "finally", !.why = "error" ] ]
    /\ refresh_sent' = [ refresh_sent EXCEPT ![task[a].session_id] = @ + 1 ]
    /\ UNCHANGED << permanent_link_id, verification_uses, active_sessions,
                    session_lock, request, poller, login, env >>

\* The awaits of the try block (lines 130, 131, 140), where a cancellation
\* of the task raises CancelledError.
Awaiting == { "sleep", "exchange", "notify" }

\* Lines 144-145: the task is cancelled while it waits.
auto_refresh_session_cancel(a) ==
    /\ task[a].pc \in Awaiting
    /\ task' = [ task EXCEPT ![a].pc = "finally", ![a].why = "cancelled" ]
    /\ UNCHANGED << permanent_link_id, verification_uses, active_sessions,
                    session_lock, request, poller, login, refresh_sent, env >>

\* Line 149: with session_lock (enter)
auto_refresh_session_finally(a) ==
    /\ task[a].pc = "finally"
    /\ session_lock = Free
    /\ session_lock' = << "task", a >>
    /\ task' = [ task EXCEPT ![a].pc = "pop" ]
    /\ UNCHANGED << permanent_link_id, verification_uses, active_sessions,
                    request, poller, login, refresh_sent, env >>

\* Lines 149-150: active_sessions.pop(session_id, None); the task ends.
auto_refresh_session_pop(a) ==
    /\ task[a].pc = "pop"
    /\ session_lock = << "task", a >>
    /\ session_lock' = Free
    /\ active_sessions' = Pop(active_sessions, task[a].session_id)
    /\ task' = [ task EXCEPT ![a].pc = "ended" ]
    /\ UNCHANGED << permanent_link_id, verification_uses, request, poller, login,
                    refresh_sent, env >>

(* --------------------------- specification ----------------------------- *)

\* A step of a worker thread, a Poller thread or a coroutine of the main
\* event loop.
Units ==
    \E a \in Attempts :
         \/ a \in workers /\ do_GET_route(a)
         \/ a \in workers /\ do_GET_load(a)
         \/ a \in workers /\ do_GET_store(a)
         \/ a \in workers /\ do_GET_failed(a)
         \/ a \in workers /\ do_GET_redirect(a)
         \/ a \in workers /\ monitor_epic_auth_loop(a)
         \/ a \in workers /\ monitor_epic_auth_sleep(a)
         \/ a \in workers /\ monitor_epic_auth_poll(a)
         \/ a \in workers /\ monitor_epic_auth_exchange(a)
         \/ a \in workers /\ monitor_epic_auth_account(a)
         \/ a \in workers /\ monitor_epic_auth_acquire(a)
         \/ a \in workers /\ monitor_epic_auth_insert(a)
         \/ a \in workers /\ monitor_epic_auth_submit(a)
         \/ a \in workers /\ send_login_success(a)
         \/ a \in workers /\ auto_refresh_session_start(a)
         \/ a \in workers /\ auto_refresh_session_sleep(a)
         \/ a \in workers /\ auto_refresh_session_exchange(a)
         \/ a \in workers /\ auto_refresh_session_acquire(a)
         \/ a \in workers /\ auto_refresh_session_update(a)
         \/ a \in workers /\ auto_refresh_session_notify(a)
         \/ a \in workers /\ auto_refresh_session_cancel(a)
         \/ a \in workers /\ auto_refresh_session_finally(a)
         \/ a \in workers /\ auto_refresh_session_pop(a)

Next == setup_ngrok_tunnel \/ Units

Spec == Init /\ [][Next]_vars

SpecAttempt == InitAttempt /\ [][Next]_vars

SpecDispatch == InitDispatch /\ [][Next]_vars

\* The identifier is configured before any request is accepted.
SpecLate == InitLate /\ [][Units]_vars

(* ------------------------------- claims -------------------------------- *)

Terminal == { "Succeeded", "Expired", "Failed" }

\* The Poller's own actions.
PollerStep(a) ==
    \/ monitor_epic_auth_loop(a)
    \/ monitor_epic_auth_sleep(a)
    \/ monitor_epic_auth_poll(a)
    \/ monitor_epic_auth_exchange(a)
    \/ monitor_epic_auth_account(a)
    \/ monitor_epic_auth_acquire(a)
    \/ monitor_epic_auth_insert(a)
    \/ monitor_epic_auth_submit(a)

\* Poller a was granted a token and both of its follow-up calls succeeded.
BothCallsSucceeded(a) ==
    poller[a].exchange_data = "code" /\ poller[a].account_info = "account"

C1_Counts ==
    \A a \in Attempts :
      LET p == poller[a] IN
        /\ p.inserts <= 1 /\ p.logins <= 1 /\ p.spawns <= 1
        /\ (BothCallsSucceeded(a) /\ p.pc \in Terminal) => p.pc = "Succeeded"
        /\ p.pc = "Succeeded" =>
              /\ p.inserts = 1 /\ p.logins = 1 /\ p.spawns = 1
              /\ login[a].pc # "none"
              /\ task[a].pc # "none" /\ task[a].session_id = p.session_id
              /\ ~ENABLED PollerStep(a)

C1_InsertStep ==
    \A a \in Attempts :
      (poller[a].inserts = 0 /\ poller'[a].inserts = 1) =>
          /\ poller'[a].session_id \in DOMAIN active_sessions'
          /\ active_sessions'[poller'[a].session_id].refresh_count = 0
          /\ active_sessions'[poller'[a].session_id].access_token = a

\* C1: a Poller run whose poll returns a token and whose exchange and account
\* calls both succeed inserts exactly one Session (refresh_count 0), submits
\* exactly one login notification and spawns exactly one refresh task for that
\* session_id, then stops; no run produces more than one of each.
C1_OneSessionPerGrant == []C1_Counts /\ [][C1_InsertStep]_vars

\* A Poller that succeeded on its second or a later poll.
C1_Witness ==
    \E a \in Attempts :
      /\ poller[a].pc = "Succeeded" /\ poller[a].polls >= 2
      /\ BothCallsSucceeded(a)
      /\ task[a].pc # "none" /\ login[a].pc # "none"

\* Poller a got a token, and its exchange call or its account call failed
\* (raised, or answered with a non-success status).
ACallFailed(a) ==
    \/ poller[a].exchange_data \in { "raised", "nocode" }
    \/ poller[a].account_info \in { "raised", "errorbody" }

\* C2: when the exchange call or the account call fails after a token was
\* received, the Poller ends Failed: no Session inserted, no login
\* notification, no refresh task.
C2_FailedCallNoSession ==
    \A a \in Attempts :
      ACallFailed(a) =>
          /\ poller[a].inserts = 0 /\ poller[a].logins = 0 /\ poller[a].spawns = 0
          /\ poller[a].pc \in Terminal => poller[a].pc = "Failed"

\* C3: a Poller whose every poll yielded no token (non-success status, or a
\* success without access_token) polls at interval, 2*interval, ..., is not
\* ended by such a response, is Expired by expires_in + interval at the
\* latest, and has inserted no Session and sent no notification.
C3_NoTokenExpires ==
    \A a \in Attempts :
      LET p == poller[a] IN
        (p.pc # "none" /\ p.quiet) =>
          /\ p.pc \in { "loop", "sleep", "poll", "Expired" }
          /\ p.pc = "poll" => p.now = (p.polls + 1) * p.interval
          /\ p.pc # "poll" => p.now = p.polls * p.interval
          /\ p.pc = "sleep" => p.now < p.deadline
          /\ p.now <= p.deadline + p.interval
          /\ p.pc = "Expired" => p.now >= p.deadline
          /\ p.pc \in { "loop", "sleep", "poll" } => ENABLED PollerStep(a)
          /\ p.inserts = 0 /\ p.logins = 0 /\ p.spawns = 0
          /\ login[a].pc = "none" /\ task[a].pc = "none"

\* A Poller that expired after three fruitless polls, past its deadline.
C3_Witness ==
    \E a \in Attempts :
      /\ poller[a].pc = "Expired" /\ poller[a].quiet
      /\ poller[a].polls >= 3 /\ poller[a].now > poller[a].deadline

\* C4: after its deadline a Poller issues no provider poll and inserts no
\* Session, whatever the interval and expires_in.
C4_NothingAfterDeadline ==
    \A a \in Attempts :
      poller[a].pc \in { "poll", "exchange", "account", "acquire", "insert", "submit" }
          => poller[a].now <= poller[a].deadline

\* The refresh tasks that are between two ticks.
Resting == { a \in Attempts : task[a].pc = "sleep" }

C5_AfterNTicks ==
    \A a \in Resting :
      /\ task[a].session_id \in DOMAIN active_sessions
      /\ active_sessions[task[a].session_id].refresh_count = task[a].refresh_count
      /\ refresh_sent[task[a].session_id] = task[a].refresh_count

C5_CountStep ==
    \A s \in (DOMAIN active_sessions) \cap (DOMAIN active_sessions') :
      \/ active_sessions'[s].refresh_count = active_sessions[s].refresh_count
      \/ active_sessions'[s].refresh_count = active_sessions[s].refresh_count + 1

\* C5: after N successful refresh ticks of a live session its entry's
\* refresh_count is N and N refresh notifications were sent for its
\* session_id; refresh_count only ever grows, by 1 per successful refresh.
C5_RefreshCount == []C5_AfterNTicks /\ [][C5_CountStep]_vars

\* The refresh tasks that ended on a failed refresh.
EndedOnFailure == { a \in Attempts : task[a].pc = "ended" /\ task[a].why = "failure" }

C6_QuietAfterwards ==
    \A a \in EndedOnFailure :
      refresh_sent'[task[a].session_id] = refresh_sent[task[a].session_id]

\* C6: after the first failed refresh the task has removed its session_id and
\* stopped; no refresh notification is sent for that session_id afterwards
\* and the entry does not reappear.
C6_RemovedForGood ==
    /\ [](\A a \in EndedOnFailure : task[a].session_id \notin DOMAIN active_sessions)
    /\ [][C6_QuietAfterwards]_vars

\* The request of worker a carries the configured identifier.
Matches(link, path) == StartsWithVerify(path) /\ link # None /\ LastSegment(path) = link

C7_RouteStep ==
    \A a \in Attempts :
      ( /\ request[a].pc = "idle" /\ request'[a].pc # "idle"
        /\ ~Matches(permanent_link_id, request'[a].path) ) =>
          /\ request'[a].pc = "done" /\ request'[a].response = 404
          /\ verification_uses' = verification_uses
          /\ poller' = poller /\ login' = login /\ task' = task
          /\ active_sessions' = active_sessions

C7_NotFoundIsFinal ==
    /\ \A a \in Attempts :
         request[a].response = 404 =>
            /\ request[a].pc = "done"
            /\ poller[a].pc = "none" /\ login[a].pc = "none" /\ task[a].pc = "none"
    /\ verification_uses <=
         Cardinality({ a \in Attempts : request[a].pc \in { "initiate", "done" }
                                          /\ request[a].response # 404 })

\* C7: a request whose token is not the configured identifier, or any request
\* while no identifier is configured, is answered not-found and changes
\* nothing: counter, Initiator, Pollers and Sessions are untouched.
C7_MismatchNotFound == []C7_NotFoundIsFinal /\ [][C7_RouteStep]_vars

\* One request with the right identifier refused before the identifier was
\* configured, and one with a wrong identifier refused after.
C7_Witness ==
    /\ permanent_link_id = LinkId
    /\ \E a, b \in Attempts :
         /\ request[a].response = 404 /\ request[a].path = << "verify", LinkId >>
         /\ request[b].response = 404 /\ request[b].path = << "verify", "other" >>

\* The requests that carried the configured identifier and are past line 216.
Counted == { a \in Attempts : request[a].pc \in { "initiate", "done" }
                                /\ request[a].response # 404 }

\* C8: once K requests with the configured identifier have been handled by
\* concurrent workers, the usage counter has grown by exactly K.
C8_CounterExact ==
    (\A a \in Attempts : request[a].pc \in { "idle", "initiate", "done" })
        => verification_uses = Cardinality(Counted)

C9_FailureIsBare ==
    \A a \in Attempts :
      /\ request[a].response = 500 =>
            /\ request[a].pc = "done"
            /\ poller[a].pc = "none" /\ login[a].pc = "none" /\ task[a].pc = "none"
            /\ verification_uses >= 1
      /\ poller[a].pc # "none" => request[a].response = 302

C9_FailureStep ==
    \A a \in Attempts :
      (request[a].pc = "initiate" /\ request'[a].pc = "done") =>
          \/ /\ request'[a].response = 500
             /\ verification_uses' = verification_uses
             /\ poller' = poller /\ active_sessions' = active_sessions
             /\ login' = login /\ task' = task
          \/ /\ request'[a].response = 302
             /\ poller'[a].pc = "loop"

C10_EndedMeansAbsent ==
    \A a \in Attempts :
      task[a].pc = "ended" => task[a].session_id \notin DOMAIN active_sessions

\* The refresh tasks that found their session_id gone at line 135.
FoundAbsent == { a \in Attempts : task[a].why = "absent" }

C11_Stopped ==
    \A a \in FoundAbsent :
      /\ task[a].pc \in { "finally", "pop", "ended" }
      /\ task[a].sent = task[a].refresh_count - 1
      /\ task[a].pc = "ended" => task[a].session_id \notin DOMAIN active_sessions

C11_TaskStep ==
    \A a \in Attempts :
      (task'[a].why = "absent" /\ task'[a] # task[a]) =>
          /\ DOMAIN active_sessions' \subseteq DOMAIN active_sessions
          /\ refresh_sent' = refresh_sent

\* C11: a refresh task that obtained a new code and found its session_id no
\* longer in the registry stops: it does not re-insert the session, sends no
\* refresh notification for that tick, and once it has ended the registry
\* does not contain that session_id.
C11_AbsentStops == []C11_Stopped /\ [][C11_TaskStep]_vars


\* The refresh tasks that were cancelled.
Cancelled == { a \in Attempts : task[a].why = "cancelled" }

C12_NoHalfTick ==
    \A a \in Cancelled : task[a].sent = task[a].refresh_count

C12_CancelStep ==
    \A a \in Attempts :
      (task[a].why # "cancelled" /\ task'[a].why = "cancelled") => task[a].pc = "sleep"

\* C12: a refresh task is cancelled at its sleep only; a cancellation does
\* not interrupt the exchange call or the delivery of a refresh notification,
\* so no cancelled task has updated the registry entry for a tick whose
\* refresh notification it did not send.
C12_CancelOnlyAtSleep == []C12_NoHalfTick /\ [][C12_CancelStep]_vars

\* The session_ids under which a Session has been stored so far.
UsedIds == { poller[b].session_id : b \in { c \in Attempts : poller[c].inserts >= 1 } }

C13_InsertStep ==
    \A a \in Attempts :
      (poller[a].inserts = 0 /\ poller'[a].inserts = 1) =>
          /\ poller[a].session_id \notin DOMAIN active_sessions
          /\ poller[a].session_id \notin UsedIds

\* C13: every insertion by a Poller uses a session_id that is not in the
\* registry and was not used by an earlier Session; an insert never
\* overwrites an entry.
C13_NeverReused == [][C13_InsertStep]_vars

\* The refresh tasks that have been spawned and have not ended, by session_id.
Owners(s) == { a \in Attempts : task[a].pc \notin { "none", "ended" }
                                  /\ task[a].session_id = s }

C14_OneOwner ==
    \A s \in SessionIds : Cardinality(Owners(s)) <= 1

C14_MutateStep ==
    \A s \in (DOMAIN active_sessions) \cap (DOMAIN active_sessions') :
      active_sessions'[s] # active_sessions[s] =>
          \E a \in Owners(s) : task[a].pc = "update" /\ task'[a].pc = "notify"

\* C14: at every moment a session_id has at most one refresh task that was
\* spawned and has not ended, and a registry entry is changed only by that
\* task; two refresh tasks never work on the same session_id.
C14_SingleOwner == []C14_OneOwner /\ [][C14_MutateStep]_vars

C15_LockScope ==
    \A a \in Attempts :
      /\ session_lock = << "poller", a >> <=> poller[a].pc = "insert"
      /\ session_lock = << "task", a >> <=> task[a].pc \in { "update", "pop" }

C15_MutationStep ==
    active_sessions' # active_sessions =>
        /\ session_lock # Free /\ session_lock' = Free
        /\ session_lock[1] = "poller" => poller'[session_lock[2]].pc # "insert"
        /\ session_lock[1] = "task" => task'[session_lock[2]].pc \notin { "update", "pop" }

\* C15: session_lock is held for the registry operation only: no Poller or
\* refresh task holds it while sleeping, calling the provider or sending a
\* notification, and every insert, update and remove is made by the holder
\* of the lock, which releases it in the same step.
C15_LockOnlyForMutation == []C15_LockScope /\ [][C15_MutationStep]_vars

\* A Poller waits for the lock while a refresh task holds it for its update.
C15_Witness ==
    \E a, b \in Attempts :
      /\ session_lock = << "task", a >> /\ task[a].pc = "update"
      /\ poller[b].pc = "acquire"

\* The attempts whose Session was stored and whose refresh task has not ended.
Live == { a \in Attempts : poller[a].inserts = 1 /\ task[a].pc # "ended" }

C16_TwoSessions ==
    \A a, b \in Live :
      a # b => /\ poller[a].session_id # poller[b].session_id
               /\ { poller[a].session_id, poller[b].session_id }
                      \subseteq DOMAIN active_sessions

C16_OwnPoller ==
    \A a \in Attempts :
      /\ (request[a].pc = "initiate" /\ request'[a].response = 302) =>
             /\ poller[a].pc = "none" /\ poller'[a].pc = "loop"
             /\ \A b \in Attempts \ { a } : poller'[b] = poller[b]
      /\ poller'[a] # poller[a] =>
             \A b \in Attempts \ { a } : poller'[b] = poller[b]

\* C16: every matching request whose Initiator call succeeds starts its own
\* Poller, whatever other Pollers are running; a Poller's step leaves every
\* other Poller as it was; and when two Pollers have each stored a Session,
\* the registry holds two distinct Sessions.
C16_IndependentPollers == []C16_TwoSessions /\ [][C16_OwnPoller]_vars

\* Unit a fails, expires or terminates in this step: its Poller ends, or its
\* refresh task leaves its loop, removes its entry or ends.
Ending(a) ==
    \/ poller[a].pc \notin Terminal /\ poller'[a].pc \in Terminal
    \/ /\ task'[a].pc \in { "finally", "pop", "ended" }
       /\ task'[a].pc # task[a].pc

\* The registry entry of attempt b's Session is as it was.
EntryKept(b) ==
    LET s == poller[b].session_id IN
      /\ s \in DOMAIN active_sessions <=> s \in DOMAIN active_sessions'
      /\ s \in DOMAIN active_sessions => active_sessions'[s] = active_sessions[s]

C17_EndingStep ==
    \A a \in Attempts :
      Ending(a) =>
        \A b \in Attempts \ { a } :
          /\ poller'[b] = poller[b] /\ task'[b] = task[b]
          /\ b \in Live => EntryKept(b)

\* C17: when a Poller fails, expires or terminates, or a session's refresh
\* fails, is cancelled or the session is removed, the registry entry of every
\* other session stays as it was and no other Poller or refresh task is
\* stopped.
C17_Confined == [][C17_EndingStep]_vars

C18_TaskGoesOn ==
    \A a \in Attempts :
      /\ task[a].why \in { "none", "failure", "absent", "cancelled" }
      /\ (task[a].undelivered /\ task[a].pc = "sleep") =>
            /\ task[a].session_id \in DOMAIN active_sessions
            /\ active_sessions[task[a].session_id].refresh_count = task[a].refresh_count
            /\ task[a].ticks < MaxRefresh => ENABLED auto_refresh_session_sleep(a)

C18_NotifyStep ==
    \A a \in Attempts :
      (task[a].pc = "notify" /\ task'[a] # task[a] /\ task'[a].why # "cancelled") =>
          /\ task'[a].pc = "sleep"
          /\ refresh_sent'[task[a].session_id] = refresh_sent[task[a].session_id] + 1
          /\ active_sessions' = active_sessions

\* C18: a notification whose delivery fails (non-success status or transport
\* failure) is posted once and not again, and does not stop the task: after a
\* failed refresh notification the entry is still in the registry with the
\* updated refresh_count and the task is in its next sleep, from which it
\* goes on to the next tick.
C18_DeliveryFailure == []C18_TaskGoesOn /\ [][C18_NotifyStep]_vars

\* A task whose first notification was not delivered has slept again and is
\* making the refresh call of its second tick.
C18_Witness ==
    \E a \in Attempts :
      /\ task[a].undelivered /\ task[a].pc = "exchange" /\ task[a].ticks = 2
      /\ task[a].session_id \in DOMAIN active_sessions
      /\ active_sessions[task[a].session_id].refresh_count = 1

C19_PollerSleepsFirst ==
    \A a \in Attempts :
      LET p == poller[a] IN
        /\ p.pc = "poll" => p.now = (p.polls + 1) * p.interval
        /\ p.pc \notin { "none", "poll" } => p.now = p.polls * p.interval
        /\ p.polls >= 1 => p.now >= p.interval

C19_TaskSleepsFirst ==
    \A a \in Attempts :
      LET t == task[a] IN
        t.pc # "none" =>
          /\ t.now = poller[a].now + t.ticks * REFRESH_INTERVAL
          /\ t.pc \in { "exchange", "acquire", "update", "notify" } => t.ticks >= 1
          /\ t.refresh_count <= t.ticks

C19_Scenario ==
    \A a \in Attempts :
      ( /\ poller[a].interval = 5 /\ poller[a].deadline = 20
        /\ poller[a].polls = 3 /\ poller[a].inserts = 1 ) =>
          /\ poller[a].now = 15
          /\ (task[a].pc = "exchange" /\ task[a].ticks = 1) => task[a].now = 135

\* C19: both loops sleep before they act.  The k-th poll of a Poller is
\* issued k * interval after the Poller started, and the first refresh call
\* of a task REFRESH_INTERVAL (120) after the task was spawned.  With
\* interval 5, expires_in 20 and the token granted on the third poll, the
\* Session is created at 15 and the first refresh tick is at 135.
C19_SleepBeforeAct == C19_PollerSleepsFirst /\ C19_TaskSleepsFirst /\ C19_Scenario

\* The scenario: granted on the third poll at 15, first refresh call at 135.
C19_Witness ==
    \E a \in Attempts :
      /\ poller[a].interval = 5 /\ poller[a].deadline = 20
      /\ poller[a].polls = 3 /\ poller[a].pc = "Succeeded" /\ poller[a].now = 15
      /\ task[a].pc = "exchange" /\ task[a].ticks = 1 /\ task[a].now = 135
      /\ task[a].session_id \in DOMAIN active_sessions

C20_Order ==
    \A a \in Attempts :
      /\ login[a].pc # "none" => poller[a].inserts = 1
      /\ task[a].pc # "none" => poller[a].inserts = 1
      /\ task[a].sent >= 1 => login[a].pc = "done"
      /\ (poller[a].inserts = 1 /\ login[a].pc # "done") =>
            refresh_sent[poller[a].session_id] = 0

C20_StartStep ==
    \A a \in Attempts :
      (task[a].pc = "spawned" /\ task'[a].pc # "spawned") =>
          task[a].session_id \in DOMAIN active_sessions

\* C20: for every session the registry insertion comes first, then the
\* login notification, then any refresh notification: the Session is in the
\* registry when its refresh task starts, and no refresh notification for a
\* session_id is sent before the login notification of the session with
\* that session_id.
C20_EventOrder == []C20_Order /\ [][C20_StartStep]_vars

====
